---------------------------- MODULE Spec2Model ----------------------------
(***************************************************************************)
(* Model of the shot-zone classification core: geom.py (Point, Polygon,    *)
(* point_in_polygon), zone.py (Zone, _scale_polygon, load_default_zones,   *)
(* classify_point) and storage.py (_normalise_result, normalize_columns).  *)
(*                                                                         *)
(* The core is a stateless library.  The state machine is a client that    *)
(* calls one function at a time: `call` holds the arguments of the call in *)
(* progress, `ret` what the call produced (a value or a raised error, and  *)
(* the state of the mutable arguments after the call), `pc` whether the    *)
(* client is between calls ("idle") or holds a finished call ("done").     *)
(* The manual tally of app.py (init_manual_counts, increment_count) is the *)
(* one stateful part: its counters live in `session_state`, and SpecTally  *)
(* runs its callbacks in every order.                                      *)
(*                                                                         *)
(* Coordinates are integers.  The source computes with IEEE doubles; for   *)
(* integer coordinates of the magnitudes used here every product and       *)
(* difference is exact and a quotient that is not an integer differs from  *)
(* every integer by at least 1/|yj - yi|, far more than the rounding       *)
(* error, so the comparisons `x == intersect_x` and `x < intersect_x`      *)
(* decide as the exact rational comparisons below do.                      *)
(***************************************************************************)
EXTENDS Integers, Sequences, FiniteSets, TLC

VARIABLES pc, call, ret

\* The application's session: st.session_state, and for the manual tally the
\* number of valid increments per (zone, outcome) since the last forced
\* reset, kept beside the program's own counters to state what they count.
VARIABLES session_state, accepted

tally == <<session_state, accepted>>

vars == <<pc, call, ret, session_state, accepted>>

(***************************************************************************)
(* Bounds of the enumerated inputs.                                        *)
(***************************************************************************)
\* Polygon vertices lie on the grid 0..MaxCoord x 0..MaxCoord.
MaxCoord == 2

\* Zone lists passed to classify_point hold at most MaxZones zones.
MaxZones == 3

\* Raw result texts carry at most MaxPad whitespace characters on each side.
MaxPad == 1

\* Tables passed to normalize_columns hold 1 .. MaxRows rows.
MaxRows == 1

\* A counter of the manual tally is incremented up to MaxCount.
MaxCount == 2

(***************************************************************************)
(* geom.py                                                                 *)
(***************************************************************************)
Point(x, y) == [x |-> x, y |-> y]

Min(a, b) == IF a <= b THEN a ELSE b

Max(a, b) == IF a <= b THEN b ELSE a

\* intersect_x = (xj - xi) * (y - yi) / (yj - yi) + xi, kept as the exact
\* fraction num/den with den = yj - yi (non-zero where the code divides).
IntersectNum(xi, yi, xj, yj, y) == (xj - xi) * (y - yi) + xi * (yj - yi)

\* x == intersect_x
EqIntersect(x, xi, yi, xj, yj, y) ==
    x * (yj - yi) = IntersectNum(xi, yi, xj, yj, y)

\* x < intersect_x with the division cleared but the sign of the divisor
\* forgotten.
LtIntersect_NoSign(x, xi, yi, xj, yj, y) ==
    x * (yj - yi) < IntersectNum(xi, yi, xj, yj, y)

\* x < intersect_x
LtIntersect(x, xi, yi, xj, yj, y) ==
    IF yj - yi > 0
    THEN x * (yj - yi) < IntersectNum(xi, yi, xj, yj, y)
    ELSE x * (yj - yi) > IntersectNum(xi, yi, xj, yj, y)

\* One iteration of the loop body for index i (0-based, as in the source).
\* Yields "return" when the body executes `return True`, and otherwise the
\* value of `inside` after the iteration.
EdgeStep(i, inside, point, vertices) ==
    LET n  == Len(vertices)
        j  == (i - 1) % n
        xi == vertices[i + 1].x
        yi == vertices[i + 1].y
        xj == vertices[j + 1].x
        yj == vertices[j + 1].y
        x  == point.x
        y  == point.y
        crosses == (yi > y) # (yj > y)
        min_y == Min(yi, yj)
        max_y == Max(yi, yj)
        min_x == Min(xi, xj)
        max_x == Max(xi, xj)
    IN  IF crosses /\ EqIntersect(x, xi, yi, xj, yj, y)
        THEN [return |-> TRUE, inside |-> TRUE]
        ELSE LET toggled == IF crosses /\ LtIntersect(x, xi, yi, xj, yj, y)
                            THEN ~inside ELSE inside
             IN  IF yi = yj /\ yj = y /\ min_x <= x /\ x <= max_x
                 THEN [return |-> TRUE, inside |-> TRUE]
                 ELSE IF xi = xj /\ xj = x /\ min_y <= y /\ y <= max_y
                      THEN [return |-> TRUE, inside |-> TRUE]
                      ELSE [return |-> FALSE, inside |-> toggled]

\* for i in range(n): ... ; return inside
RECURSIVE EdgeLoop(_, _, _, _)
EdgeLoop(i, inside, point, vertices) ==
    IF i >= Len(vertices)
    THEN inside
    ELSE LET s == EdgeStep(i, inside, point, vertices)
         IN  IF s.return THEN TRUE
             ELSE EdgeLoop(i + 1, s.inside, point, vertices)

point_in_polygon(point, polygon) == EdgeLoop(0, FALSE, point, polygon)

(***************************************************************************)
(* zone.py                                                                 *)
(***************************************************************************)
Zone(name, polygon) == [name |-> name, polygon |-> polygon]

\* Polygon(points): the constructor rejects fewer than three vertices.
Polygon(vertices) ==
    IF Len(vertices) < 3
    THEN [ok |-> FALSE, error |-> "ValueError"]
    ELSE [ok |-> TRUE, value |-> vertices]

\* A ratio r/100 of the source (0.38, 0.05, ...) is held as the integer r.
\* For the image sizes used here r * width is a multiple of 100, so the
\* quotient below is the exact product ratio * width.  In doubles one
\* product of the 600 x 500 image is off by one unit in the last place
\* (0.82 * 600 = 491.99999999999994); the labels of the source and of this
\* exact scaling agree at every point of PixelPoints.
RECURSIVE SwappedPoints(_, _, _)
SwappedPoints(relative_vertices, width, height) ==
    IF relative_vertices = <<>>
    THEN <<>>
    ELSE <<Point((Head(relative_vertices)[1] * height) \div 100,
                 (Head(relative_vertices)[2] * width) \div 100)>>
         \o SwappedPoints(Tail(relative_vertices), width, height)

\* The scaling with width and height exchanged.
_scale_polygon_Swapped(relative_vertices, width, height) ==
    Polygon(SwappedPoints(relative_vertices, width, height)).value

RECURSIVE FlippedPoints(_, _, _)
FlippedPoints(relative_vertices, width, height) ==
    IF relative_vertices = <<>>
    THEN <<>>
    ELSE <<Point((Head(relative_vertices)[1] * width) \div 100,
                 height - (Head(relative_vertices)[2] * height) \div 100)>>
         \o FlippedPoints(Tail(relative_vertices), width, height)

\* The scaling with the y axis pointing up from the bottom of the image.
_scale_polygon_FlipY(relative_vertices, width, height) ==
    Polygon(FlippedPoints(relative_vertices, width, height)).value

\* points = [Point(x * width, y * height) for x, y in relative_vertices]
RECURSIVE ScaledPoints(_, _, _)
ScaledPoints(relative_vertices, width, height) ==
    IF relative_vertices = <<>>
    THEN <<>>
    ELSE <<Point((Head(relative_vertices)[1] * width) \div 100,
                 (Head(relative_vertices)[2] * height) \div 100)>>
         \o ScaledPoints(Tail(relative_vertices), width, height)

_scale_polygon(relative_vertices, width, height) ==
    Polygon(ScaledPoints(relative_vertices, width, height)).value

\* The five templates, as ratios in hundredths.
PaintTemplate == <<<<38, 5>>, <<62, 5>>, <<62, 38>>, <<38, 38>>>>

MidrangeTemplate ==
    <<<<18, 0>>, <<82, 0>>, <<88, 44>>, <<75, 75>>, <<25, 75>>, <<12, 44>>>>

LeftCornerTemplate == <<<<0, 44>>, <<12, 44>>, <<12, 94>>, <<0, 94>>>>

RightCornerTemplate == <<<<88, 44>>, <<100, 44>>, <<100, 94>>, <<88, 94>>>>

AboveBreakTemplate ==
    <<<<0, 0>>, <<100, 0>>, <<100, 44>>, <<88, 44>>,
      <<74, 20>>, <<26, 20>>, <<12, 44>>, <<0, 44>>>>

\* An image file: whether the path exists, and image.size.
Image(exists, width, height) ==
    [exists |-> exists, width |-> width, height |-> height]

\* The zone list with MIDRANGE listed before PAINT.
load_default_zones_MidrangeFirst(image) ==
    IF ~image.exists
    THEN [ok |-> FALSE, error |-> "FileNotFoundError"]
    ELSE LET width  == image.width
             height == image.height
         IN  [ok |-> TRUE,
              value |-> <<
                Zone("MIDRANGE", _scale_polygon(MidrangeTemplate, width, height)),
                Zone("PAINT", _scale_polygon(PaintTemplate, width, height)),
                Zone("3PT_CORNER", _scale_polygon(LeftCornerTemplate, width, height)),
                Zone("3PT_CORNER", _scale_polygon(RightCornerTemplate, width, height)),
                Zone("3PT_ABOVE_BREAK", _scale_polygon(AboveBreakTemplate, width, height))>>]

load_default_zones(image) ==
    IF ~image.exists
    THEN [ok |-> FALSE, error |-> "FileNotFoundError"]
    ELSE LET width  == image.width
             height == image.height
             paint        == _scale_polygon(PaintTemplate, width, height)
             midrange     == _scale_polygon(MidrangeTemplate, width, height)
             left_corner  == _scale_polygon(LeftCornerTemplate, width, height)
             right_corner == _scale_polygon(RightCornerTemplate, width, height)
             above_break  == _scale_polygon(AboveBreakTemplate, width, height)
         IN  [ok |-> TRUE,
              value |-> <<Zone("PAINT", paint),
                          Zone("MIDRANGE", midrange),
                          Zone("3PT_CORNER", left_corner),
                          Zone("3PT_CORNER", right_corner),
                          Zone("3PT_ABOVE_BREAK", above_break)>>]

\* The loop without its early return: the last containing zone wins.
RECURSIVE ClassifyLast(_, _, _, _)
ClassifyLast(x, y, zones, found) ==
    IF zones = <<>>
    THEN found
    ELSE ClassifyLast(x, y, Tail(zones),
                      IF point_in_polygon(Point(x, y), Head(zones).polygon)
                      THEN Head(zones).name ELSE found)

classify_point_LastMatch(x, y, zones) == ClassifyLast(x, y, zones, "UNKNOWN")

\* `return "UNKNOWN"` placed inside the loop: only the first zone is tried.
classify_point_FirstOnly(x, y, zones) ==
    IF zones = <<>>
    THEN "UNKNOWN"
    ELSE IF point_in_polygon(Point(x, y), Head(zones).polygon)
         THEN Head(zones).name
         ELSE "UNKNOWN"

\* for zone in zones: if point_in_polygon(...): return zone.name
\* return "UNKNOWN"
RECURSIVE classify_point(_, _, _)
classify_point(x, y, zones) ==
    IF zones = <<>>
    THEN "UNKNOWN"
    ELSE IF point_in_polygon(Point(x, y), Head(zones).polygon)
         THEN Head(zones).name
         ELSE classify_point(x, y, Tail(zones))

(***************************************************************************)
(* storage.py: text.  A Python str is a sequence of one-character strings. *)
(***************************************************************************)
\* The whitespace str.strip() removes (the members that occur in the inputs).
Whitespace == {" ", "\t"}

\* str.lower() on one character (the letters that occur in the inputs).
LowerMap ==
    ("A" :> "a") @@
    ("B" :> "b") @@
    ("D" :> "d") @@
    ("E" :> "e") @@
    ("F" :> "f") @@
    ("H" :> "h") @@
    ("I" :> "i") @@
    ("K" :> "k") @@
    ("L" :> "l") @@
    ("M" :> "m") @@
    ("N" :> "n") @@
    ("O" :> "o") @@
    ("R" :> "r") @@
    ("S" :> "s") @@
    ("T" :> "t") @@
    ("U" :> "u") @@
    ("V" :> "v") @@
    ("W" :> "w") @@
    ("Y" :> "y")

LowerChar(c) == IF c \in DOMAIN LowerMap THEN LowerMap[c] ELSE c

UpperChar(c) ==
    IF \E u \in DOMAIN LowerMap : LowerMap[u] = c
    THEN CHOOSE u \in DOMAIN LowerMap : LowerMap[u] = c
    ELSE c

\* text.lower()
RECURSIVE lower(_)
lower(text) ==
    IF text = <<>> THEN <<>>
    ELSE <<LowerChar(Head(text))>> \o lower(Tail(text))

RECURSIVE lstrip(_)
lstrip(text) ==
    IF text # <<>> /\ Head(text) \in Whitespace
    THEN lstrip(Tail(text))
    ELSE text

RECURSIVE rstrip(_)
rstrip(text) ==
    IF text # <<>> /\ text[Len(text)] \in Whitespace
    THEN rstrip(SubSeq(text, 1, Len(text) - 1))
    ELSE text

\* text.strip()
strip(text) == rstrip(lstrip(text))

\* Python values that reach _normalise_result: a str, a bool, a number
\* (held by its repr), None.
StrV(text) == [type |-> "str", text |-> text]

BoolV(b) == [type |-> "bool", b |-> b]

NumV(repr) == [type |-> "number", repr |-> repr]

NoneV == [type |-> "none"]

\* float("nan"), what pd.to_numeric(errors="coerce") leaves for a value it
\* cannot convert.
NaN == [type |-> "nan"]

\* A whole column handed to a function as one value; its str() is a
\* multi-line rendering of the column, no token of either vocabulary.
SeriesV == [type |-> "series"]

\* str(value)
str(value) ==
    CASE value.type = "str" -> value.text
      [] value.type = "bool" ->
            IF value.b THEN <<"T", "r", "u", "e">>
            ELSE <<"F", "a", "l", "s", "e">>
      [] value.type = "number" -> value.repr
      [] value.type = "none" -> <<"N", "o", "n", "e">>
      [] value.type = "nan" -> <<"n", "a", "n">>
      [] value.type = "series" -> <<"S", "e", "r", "i", "e", "s">>

make_tokens ==
    { <<"m", "a", "k", "e">>,
      <<"m", "a", "d", "e">>,
      <<"h", "i", "t">>,
      <<"t", "r", "u", "e">>,
      <<"t">>,
      <<"1">>,
      <<"y", "e", "s">>,
      <<"y">> }

miss_tokens ==
    { <<"m", "i", "s", "s">>,
      <<"m", "i", "s", "s", "e", "d">>,
      <<"f", "a", "l", "s", "e">>,
      <<"f">>,
      <<"0">>,
      <<"n", "o">>,
      <<"n">> }

MAKE == <<"M", "A", "K", "E">>

MISS == <<"M", "I", "S", "S">>

\* raise ValueError(f"Result value '{value}' is not recognised ..."): the
\* message carries the value as format() renders it.
UnrecognisedResult(value) ==
    [ok |-> FALSE, error |-> "ValueError", kind |-> "unrecognised_result",
     value |-> str(value)]

\* The normalisation without the .strip().
_normalise_result_NoStrip(value) ==
    LET text == lower(str(value))
    IN  IF text \in make_tokens THEN [ok |-> TRUE, value |-> MAKE]
        ELSE IF text \in miss_tokens THEN [ok |-> TRUE, value |-> MISS]
        ELSE UnrecognisedResult(value)

_normalise_result(value) ==
    LET text == lower(strip(str(value)))
    IN  IF text \in make_tokens THEN [ok |-> TRUE, value |-> MAKE]
        ELSE IF text \in miss_tokens THEN [ok |-> TRUE, value |-> MISS]
        ELSE UnrecognisedResult(value)

(***************************************************************************)
(* storage.py: tables.  A DataFrame is its column labels and, per column,  *)
(* the sequence of its cells.  A mapping is a dict: its items in insertion *)
(* order, as pairs <<target, source>> with distinct targets.               *)
(***************************************************************************)
DataFrame(columns, data) == [columns |-> columns, data |-> data]

Keys(mapping) == {mapping[k][1] : k \in 1 .. Len(mapping)}

required == {"x", "y", "result"}

\* sorted(missing_targets): the required names in string order.
SortedTargets(targets) ==
    SelectSeq(<<"result", "x", "y">>, LAMBDA t : t \in targets)

\* raise ValueError(f"Missing mappings for: {', '.join(sorted(...))}.")
MissingMappings(missing_targets) ==
    [ok |-> FALSE, error |-> "ValueError", kind |-> "missing_mappings",
     names |-> SortedTargets(missing_targets)]

\* raise ValueError(f"Source column '{source}' not found ...")
SourceNotFound(source) ==
    [ok |-> FALSE, error |-> "ValueError", kind |-> "source_not_found",
     names |-> <<source>>]

\* raise ValueError(f"Column '{coordinate}' contains non-numeric values ...")
NonNumeric(coordinate) ==
    [ok |-> FALSE, error |-> "ValueError", kind |-> "non_numeric",
     names |-> <<coordinate>>]

\* normalized[label] with no column of that label.
KeyError(label) ==
    [ok |-> FALSE, error |-> "KeyError", kind |-> "key_error",
     names |-> <<label>>]

\* pd.to_numeric on a DataFrame (normalized[label] with a repeated label).
TypeError(label) ==
    [ok |-> FALSE, error |-> "TypeError", kind |-> "type_error",
     names |-> <<label>>]

\* for target, source in mapping.items(): ... rename_map[source] = target
\* rename_map is a function from source labels to targets; a later item
\* with the same source replaces the earlier one.
RECURSIVE BuildRenameMap(_, _, _)
BuildRenameMap(items, rename_map, columns) ==
    IF items = <<>>
    THEN [ok |-> TRUE, value |-> rename_map]
    ELSE LET target == Head(items)[1]
             source == Head(items)[2]
         IN  IF \A k \in 1 .. Len(columns) : columns[k] # source
             THEN SourceNotFound(source)
             ELSE BuildRenameMap(Tail(items),
                                 (source :> target) @@ rename_map, columns)

\* df.rename(columns=rename_map).copy(): a new table, labels replaced.
Rename(df, rename_map) ==
    DataFrame([k \in 1 .. Len(df.columns) |->
                  IF df.columns[k] \in DOMAIN rename_map
                  THEN rename_map[df.columns[k]]
                  ELSE df.columns[k]],
              df.data)

\* The positions of the columns carrying a label.
Positions(df, label) == {k \in 1 .. Len(df.columns) : df.columns[k] = label}

Digits == {"0", "1", "2", "3", "4", "5", "6", "7", "8", "9"}

\* The texts pd.to_numeric converts: digits with at most one decimal point.
IsNumberText(text) ==
    /\ \E k \in 1 .. Len(text) : text[k] \in Digits
    /\ \A k \in 1 .. Len(text) : text[k] \in Digits \cup {"."}
    /\ Cardinality({k \in 1 .. Len(text) : text[k] = "."}) <= 1

\* pd.to_numeric(..., errors="coerce") on one cell.
ToNumeric(cell) ==
    CASE cell.type = "number" -> cell
      [] cell.type = "str" ->
            IF IsNumberText(cell.text) THEN NumV(cell.text) ELSE NaN
      [] OTHER -> NaN

\* for coordinate in ("x", "y"): convert the column, fail on a NaN.
RECURSIVE ConvertCoordinates(_, _)
ConvertCoordinates(coordinates, normalized) ==
    IF coordinates = <<>>
    THEN [ok |-> TRUE, value |-> normalized]
    ELSE LET coordinate == Head(coordinates)
             at == Positions(normalized, coordinate)
         IN  IF at = {} THEN KeyError(coordinate)
             ELSE IF Cardinality(at) > 1 THEN TypeError(coordinate)
             ELSE LET k == CHOOSE k \in at : TRUE
                      column == normalized.data[k]
                      converted == [r \in 1 .. Len(column) |->
                                       ToNumeric(column[r])]
                  IN  IF \E r \in 1 .. Len(column) : converted[r] = NaN
                      THEN NonNumeric(coordinate)
                      ELSE ConvertCoordinates(
                              Tail(coordinates),
                              DataFrame(normalized.columns,
                                  [normalized.data EXCEPT ![k] = converted]))

\* Series.apply(_normalise_result): the first cell that fails raises.
ApplyNormalise(column) ==
    IF \E r \in 1 .. Len(column) : ~_normalise_result(column[r]).ok
    THEN LET r == CHOOSE r \in 1 .. Len(column) :
                     /\ ~_normalise_result(column[r]).ok
                     /\ \A q \in 1 .. (r - 1) : _normalise_result(column[q]).ok
         IN  _normalise_result(column[r])
    ELSE [ok |-> TRUE,
          value |-> [r \in 1 .. Len(column) |->
                        StrV(_normalise_result(column[r]).value)]]

\* normalized["result"] = normalized["result"].apply(_normalise_result)
\* With a repeated label the selection is a DataFrame, whose apply hands
\* each whole column to the function.
NormaliseResultColumn(normalized) ==
    LET at == Positions(normalized, "result")
    IN  IF at = {} THEN KeyError("result")
        ELSE IF Cardinality(at) > 1 THEN _normalise_result(SeriesV)
        ELSE LET k == CHOOSE k \in at : TRUE
                 applied == ApplyNormalise(normalized.data[k])
             IN  IF ~applied.ok THEN applied
                 ELSE [ok |-> TRUE,
                       value |-> DataFrame(normalized.columns,
                           [normalized.data EXCEPT ![k] = applied.value])]

\* The function with the source columns looked up before the required
\* targets are checked.
normalize_columns_LookupFirst(df, mapping) ==
    LET renames == BuildRenameMap(mapping, <<>>, df.columns)
        missing_targets == required \ Keys(mapping)
    IN  IF ~renames.ok THEN renames
        ELSE IF missing_targets # {} THEN MissingMappings(missing_targets)
        ELSE LET converted == ConvertCoordinates(<<"x", "y">>,
                                  Rename(df, renames.value))
             IN  IF ~converted.ok THEN converted
                 ELSE NormaliseResultColumn(converted.value)

normalize_columns(df, mapping) ==
    LET missing_targets == required \ Keys(mapping)
    IN  IF missing_targets # {}
        THEN MissingMappings(missing_targets)
        ELSE LET renames == BuildRenameMap(mapping, <<>>, df.columns)
             IN  IF ~renames.ok THEN renames
                 ELSE LET converted == ConvertCoordinates(<<"x", "y">>,
                                           Rename(df, renames.value))
                      IN  IF ~converted.ok THEN converted
                          ELSE NormaliseResultColumn(converted.value)

(***************************************************************************)
(* app.py: the manual tally.  st.session_state is a function from keys to  *)
(* values; "manual_counts", when present, maps a zone label to a dict of   *)
(* its "make" and "miss" counters.                                         *)
(***************************************************************************)
ZONE_LABELS == <<"PAINT", "TWO_PT", "THREE_PT">>

Labels == {ZONE_LABELS[k] : k \in 1 .. Len(ZONE_LABELS)}

\* {label: {"make": 0, "miss": 0} for label in ZONE_LABELS}
_fresh_manual_counts == [label \in Labels |-> [make |-> 0, miss |-> 0]]

\* d[key] = value on a dict held as a function.
SetItem(d, key, value) == (key :> value) @@ d

\* for label in ZONE_LABELS: a missing or incomplete entry is replaced by
\* zeros, every other entry is left as it is.
RECURSIVE RepairCounts(_, _)
RepairCounts(labels, counts) ==
    IF labels = <<>>
    THEN counts
    ELSE LET label == Head(labels)
         IN  IF \/ label \notin DOMAIN counts
                \/ ~({"make", "miss"} \subseteq DOMAIN counts[label])
             THEN RepairCounts(Tail(labels),
                               SetItem(counts, label, [make |-> 0, miss |-> 0]))
             ELSE RepairCounts(Tail(labels), counts)

\* The initialisation without its condition: every call, forced or not,
\* starts a fresh tally.
init_manual_counts_AlwaysFresh(state, force) ==
    SetItem(state, "manual_counts", _fresh_manual_counts)

\* init_manual_counts(force): the session state after the call.
init_manual_counts(state, force) ==
    IF force \/ "manual_counts" \notin DOMAIN state
    THEN SetItem(state, "manual_counts", _fresh_manual_counts)
    ELSE SetItem(state, "manual_counts",
                 RepairCounts(ZONE_LABELS, state["manual_counts"]))

\* increment_count(zone, outcome): the error raised or the session state
\* after the call.
increment_count(state, zone, outcome) ==
    IF zone \notin Labels
    THEN [ok |-> FALSE, error |-> "ValueError", kind |-> "unknown_zone",
          state |-> state]
    ELSE IF outcome \notin {"make", "miss"}
    THEN [ok |-> FALSE, error |-> "ValueError", kind |-> "unknown_outcome",
          state |-> state]
    ELSE LET ready  == init_manual_counts(state, FALSE)
             counts == ready["manual_counts"]
         IN  [ok |-> TRUE,
              state |-> SetItem(ready, "manual_counts",
                  [counts EXCEPT ![zone][outcome] = @ + 1])]

(***************************************************************************)
(* Inputs of the geometry calls.                                           *)
(***************************************************************************)
Coords == 0 .. MaxCoord

GridPoints == {Point(x, y) : x \in Coords, y \in Coords}

\* Query points: the grid and one ring around it, so that points outside
\* every polygon's bounding box exist on all four sides.
QueryPoints ==
    {Point(x, y) : x \in -1 .. (MaxCoord + 1), y \in -1 .. (MaxCoord + 1)}

\* Twice the signed area of the triangle a, b, c.
Orient(a, b, c) == (b.x - a.x) * (c.y - a.y) - (b.y - a.y) * (c.x - a.x)

Sign(v) == IF v > 0 THEN 1 ELSE IF v < 0 THEN -1 ELSE 0

\* c lies on the closed segment a-b.
OnSegment(a, b, c) ==
    /\ Orient(a, b, c) = 0
    /\ Min(a.x, b.x) <= c.x /\ c.x <= Max(a.x, b.x)
    /\ Min(a.y, b.y) <= c.y /\ c.y <= Max(a.y, b.y)

\* The closed segments a-b and c-d share a point.
SegmentsMeet(a, b, c, d) ==
    \/ /\ Sign(Orient(a, b, c)) * Sign(Orient(a, b, d)) < 0
       /\ Sign(Orient(c, d, a)) * Sign(Orient(c, d, b)) < 0
    \/ OnSegment(a, b, c) \/ OnSegment(a, b, d)
    \/ OnSegment(c, d, a) \/ OnSegment(c, d, b)

Triangles ==
    {<<a, b, c>> : a \in GridPoints, b \in GridPoints, c \in GridPoints}

\* Non-degenerate triangles, in both orientations and every rotation.
TrianglePolygons == {t \in Triangles : Orient(t[1], t[2], t[3]) # 0}

Quads ==
    {<<a, b, c, d>> : a \in GridPoints, b \in GridPoints,
                      c \in GridPoints, d \in GridPoints}

\* Simple quadrilaterals (convex or with one reflex vertex): no three
\* consecutive vertices collinear and opposite edges disjoint.
QuadPolygons ==
    {q \in Quads :
        /\ Orient(q[1], q[2], q[3]) # 0
        /\ Orient(q[2], q[3], q[4]) # 0
        /\ Orient(q[3], q[4], q[1]) # 0
        /\ Orient(q[4], q[1], q[2]) # 0
        /\ ~SegmentsMeet(q[1], q[2], q[3], q[4])
        /\ ~SegmentsMeet(q[2], q[3], q[4], q[1])}

Polygons == TrianglePolygons \cup QuadPolygons

(***************************************************************************)
(* Inputs of the classification calls.                                     *)
(***************************************************************************)
\* Two overlapping polygons: a square, and a triangle inside it whose top
\* vertex has two sloped edges.
ZonePolygons ==
    { <<Point(0, 0), Point(2, 0), Point(2, 2), Point(0, 2)>>,
      <<Point(0, 0), Point(2, 0), Point(1, 2)>> }

\* Zone names are free strings: two zones may share one, and nothing stops
\* a zone from carrying the name of the sentinel.
ZoneNames == {"A", "B", "UNKNOWN"}

ZonePool == {Zone(n, p) : n \in ZoneNames, p \in ZonePolygons}

ZoneLists == UNION {[1 .. n -> ZonePool] : n \in 0 .. MaxZones}

\* The reference court image of the end-to-end scenario, and a missing file.
ReferenceImage == Image(TRUE, 600, 500)

MissingImage == Image(FALSE, 0, 0)

\* Pixel coordinates of the reference image, every tenth pixel.
PixelPoints == {Point(10 * i, 10 * k) : i \in 0 .. 60, k \in 0 .. 50}

(***************************************************************************)
(* Inputs of the result normalisation.                                     *)
(***************************************************************************)
\* Every token of both vocabularies, and words of neither.
Words ==
    { <<"m", "a", "k", "e">>,
      <<"m", "a", "d", "e">>,
      <<"h", "i", "t">>,
      <<"t", "r", "u", "e">>,
      <<"t">>,
      <<"1">>,
      <<"y", "e", "s">>,
      <<"y">>,
      <<"m", "i", "s", "s">>,
      <<"m", "i", "s", "s", "e", "d">>,
      <<"f", "a", "l", "s", "e">>,
      <<"f">>,
      <<"0">>,
      <<"n", "o">>,
      <<"n">> }
    \cup
    { <<>>,
      <<"m", "a", "y", "b", "e">>,
      <<"2">>,
      <<"1", ".", "0">>,
      <<"m", "a", " ", "k", "e">>,
      <<"m", "a", "k", "e", "s">>,
      <<"n", "o", "n", "e">> }

LongWords == { <<"u", "n", "k", "n", "o", "w", "n", "_", "v", "a", "l", "u", "e">> }

upper(text) == [k \in 1 .. Len(text) |-> UpperChar(text[k])]

\* The word with the characters at the masked positions in upper case.
Cased(word, mask) ==
    [k \in 1 .. Len(word) |-> IF mask[k] THEN UpperChar(word[k]) ELSE word[k]]

\* Every mix of upper and lower case of the words.
CasedWords ==
    UNION {{Cased(w, mask) : mask \in [1 .. Len(w) -> BOOLEAN]} : w \in Words}
    \cup LongWords \cup {upper(w) : w \in LongWords}

Pads == UNION {[1 .. n -> Whitespace] : n \in 0 .. MaxPad}

RawTexts == {l \o w \o r : l \in Pads, w \in CasedWords, r \in Pads}

RawValues ==
    {StrV(t) : t \in RawTexts}
    \cup {BoolV(TRUE), BoolV(FALSE), NoneV}
    \cup {NumV(<<"1">>), NumV(<<"0">>),
          NumV(<<"1", ".", "0">>), NumV(<<"0", ".", "0">>)}

(***************************************************************************)
(* Inputs of normalize_columns.                                            *)
(***************************************************************************)
\* A cell that is a number and a MAKE token, one that is neither a number
\* nor unrecognised (a MISS token), one that is a number and no token.
Cells == {StrV(<<"1">>), StrV(<<"n">>), StrV(<<"2">>)}

\* The column labels of the imported tables: with and without "res".
ColumnLists == {<<"sx", "sy", "res">>, <<"sx", "sy">>}

Tables ==
    UNION {{DataFrame(columns, data) :
                data \in [1 .. Len(columns) -> [1 .. rows -> Cells]]} :
           columns \in ColumnLists, rows \in 1 .. MaxRows}

Sources == {"sx", "sy", "res"}

\* The logical fields in the order the mapping form inserts them.
Targets == <<"x", "y", "result", "player">>

\* A choice per target: a source column, or "" for a target left out.
\* The dict holds the chosen targets in the order of Targets.
RECURSIVE MappingOf(_, _)
MappingOf(choice, k) ==
    IF k > Len(Targets) THEN <<>>
    ELSE (IF choice[k] = "" THEN <<>> ELSE <<<<Targets[k], choice[k]>>>>)
         \o MappingOf(choice, k + 1)

Mappings ==
    {MappingOf(choice, 1) :
        choice \in [1 .. Len(Targets) -> Sources \cup {""}]}

(***************************************************************************)
(* Geometric reference: what "inside" and "on the boundary" mean,          *)
(* independently of the ray casting above.                                 *)
(***************************************************************************)
\* The vertex after index k (1-based), closing the polygon.
Succ(k, polygon) == polygon[(k % Len(polygon)) + 1]

\* The point lies on some edge of the polygon, end points included.
OnBoundary(point, polygon) ==
    \E k \in 1 .. Len(polygon) :
        OnSegment(polygon[k], Succ(k, polygon), point)

\* Contribution of the edge a-b to the winding number around p.
EdgeWinding(a, b, p) ==
    IF a.y <= p.y
    THEN IF b.y > p.y /\ Orient(a, b, p) > 0 THEN 1 ELSE 0
    ELSE IF b.y <= p.y /\ Orient(a, b, p) < 0 THEN -1 ELSE 0

RECURSIVE WindingFrom(_, _, _)
WindingFrom(k, point, polygon) ==
    IF k > Len(polygon)
    THEN 0
    ELSE EdgeWinding(polygon[k], Succ(k, polygon), point)
            + WindingFrom(k + 1, point, polygon)

\* The point is in the interior of the (simple) polygon.
StrictlyInside(point, polygon) ==
    /\ ~OnBoundary(point, polygon)
    /\ WindingFrom(1, point, polygon) # 0

\* Every turn of the polygon has the same strict direction.
IsConvex(polygon) ==
    \E s \in {-1, 1} :
        \A k \in 1 .. Len(polygon) :
            Sign(Orient(polygon[k], Succ(k, polygon),
                        Succ(k + 1, polygon))) = s

\* The point is strictly on the inner side of every edge of a convex polygon.
StrictlyInsideConvex(point, polygon) ==
    \E s \in {-1, 1} :
        \A k \in 1 .. Len(polygon) :
            Sign(Orient(polygon[k], Succ(k, polygon), point)) = s

\* The point is strictly outside the polygon's axis-aligned bounding box.
OutsideBoundingBox(point, polygon) ==
    \/ \A k \in 1 .. Len(polygon) : point.x < polygon[k].x
    \/ \A k \in 1 .. Len(polygon) : point.x > polygon[k].x
    \/ \A k \in 1 .. Len(polygon) : point.y < polygon[k].y
    \/ \A k \in 1 .. Len(polygon) : point.y > polygon[k].y

IsVertex(point, polygon) == \E k \in 1 .. Len(polygon) : polygon[k] = point

(***************************************************************************)
(* The client.                                                             *)
(***************************************************************************)
Idle == [op |-> "none"]

NoRet == [ok |-> TRUE]

Init ==
    /\ pc = "idle"
    /\ call = Idle
    /\ ret = NoRet
    /\ session_state = <<>>
    /\ accepted = [label \in Labels |-> [make |-> 0, miss |-> 0]]

CallPointInPolygon ==
    /\ pc = "idle"
    /\ \E point \in QueryPoints, polygon \in Polygons :
          /\ call' = [op |-> "point_in_polygon", point |-> point,
                      polygon |-> polygon]
          /\ ret' = [ok |-> TRUE, value |-> point_in_polygon(point, polygon)]
    /\ pc' = "done"
    /\ UNCHANGED tally

\* classify_point on an arbitrary zone list.
CallClassifyPoint ==
    /\ pc = "idle"
    /\ \E point \in QueryPoints, zones \in ZoneLists :
          /\ call' = [op |-> "classify_point", x |-> point.x, y |-> point.y,
                      zones |-> zones]
          /\ ret' = [ok |-> TRUE,
                     value |-> classify_point(point.x, point.y, zones)]
    /\ pc' = "done"
    /\ UNCHANGED tally

CallLoadDefaultZones ==
    /\ pc = "idle"
    /\ \E image \in {ReferenceImage, MissingImage} :
          /\ call' = [op |-> "load_default_zones", image |-> image]
          /\ ret' = load_default_zones(image)
    /\ pc' = "done"
    /\ UNCHANGED tally

\* The application's use: zones = load_default_zones(...), then
\* classify_point(x, y, zones) for a pixel of the court image.
CallClassifyDefault ==
    /\ pc = "idle"
    /\ \E point \in PixelPoints :
          LET zones == load_default_zones(ReferenceImage).value
          IN  /\ call' = [op |-> "classify_point", x |-> point.x,
                          y |-> point.y, zones |-> zones]
              /\ ret' = [ok |-> TRUE,
                         value |-> classify_point(point.x, point.y, zones)]
    /\ pc' = "done"
    /\ UNCHANGED tally

CallNormaliseResult ==
    /\ pc = "idle"
    /\ \E value \in RawValues :
          /\ call' = [op |-> "_normalise_result", value |-> value]
          /\ ret' = _normalise_result(value)
    /\ pc' = "done"
    /\ UNCHANGED tally

\* normalize_columns(df, mapping).  `df` in the result is the caller's table
\* after the call: the function works on a renamed copy and never assigns
\* to its argument.
CallNormalizeColumns ==
    /\ pc = "idle"
    /\ \E df \in Tables, mapping \in Mappings :
          /\ call' = [op |-> "normalize_columns", df |-> df,
                      mapping |-> mapping]
          /\ ret' = [result |-> normalize_columns(df, mapping), df |-> df]
    /\ pc' = "done"
    /\ UNCHANGED tally

\* The client drops the finished call and is ready for the next one.
Return ==
    /\ pc = "done"
    /\ pc' = "idle"
    /\ call' = Idle
    /\ ret' = NoRet
    /\ UNCHANGED tally

Next ==
    \/ CallPointInPolygon
    \/ CallClassifyPoint
    \/ CallLoadDefaultZones
    \/ CallClassifyDefault
    \/ CallNormaliseResult
    \/ CallNormalizeColumns
    \/ Return

Spec == Init /\ [][Next]_vars

(***************************************************************************)
(* The manual tally: the button callbacks of render_manual_tally and the   *)
(* initialisation main() runs on every pass, each run to completion.       *)
(***************************************************************************)
\* Zones and outcomes a caller may pass: the valid ones and others.
ZoneInputs == Labels \cup {"MIDRANGE", "UNKNOWN"}

OutcomeInputs == {"make", "miss", "MAKE"}

\* The counter as the tally page shows it: 0 while no tally exists.
Counter(state, label, outcome) ==
    IF "manual_counts" \in DOMAIN state
    THEN state["manual_counts"][label][outcome]
    ELSE 0

CallIncrementCount ==
    /\ pc = "idle"
    /\ \E zone \in ZoneInputs, outcome \in OutcomeInputs :
          LET valid == zone \in Labels /\ outcome \in {"make", "miss"}
              r     == increment_count(session_state, zone, outcome)
          IN  /\ valid => Counter(session_state, zone, outcome) < MaxCount
              /\ call' = [op |-> "increment_count", zone |-> zone,
                          outcome |-> outcome, before |-> session_state]
              /\ ret' = [ok |-> r.ok,
                         error |-> IF r.ok THEN "" ELSE r.error]
              /\ session_state' = r.state
              /\ accepted' = IF valid
                             THEN [accepted EXCEPT ![zone][outcome] = @ + 1]
                             ELSE accepted
    /\ pc' = "done"

CallInitManualCounts ==
    /\ pc = "idle"
    /\ \E force \in BOOLEAN :
          /\ call' = [op |-> "init_manual_counts", force |-> force,
                      before |-> session_state]
          /\ ret' = [ok |-> TRUE]
          /\ session_state' = init_manual_counts(session_state, force)
          /\ accepted' = IF force
                         THEN [label \in Labels |-> [make |-> 0, miss |-> 0]]
                         ELSE accepted
    /\ pc' = "done"

TallyNext ==
    \/ CallIncrementCount
    \/ CallInitManualCounts
    \/ Return

SpecTally == Init /\ [][TallyNext]_vars

(***************************************************************************)
(* Claims about point_in_polygon.                                          *)
(***************************************************************************)
DonePIP == pc = "done" /\ call.op = "point_in_polygon"

\* C1: for every polygon and every point, point_in_polygon returns true if
\* and only if the point lies strictly inside the polygon or exactly on its
\* boundary (any edge, any vertex).
C1_InsideOrBoundaryIff ==
    DonePIP =>
        (ret.value <=> (\/ StrictlyInside(call.point, call.polygon)
                        \/ OnBoundary(call.point, call.polygon)))

\* C2: for every vertex v of a polygon, point_in_polygon(v, polygon)
\* returns true.
C2_VertexIsInside ==
    (DonePIP /\ IsVertex(call.point, call.polygon)) => ret.value

\* C3: for a convex polygon, point_in_polygon returns true for every point
\* strictly inside its interior and false for every point strictly outside
\* its axis-aligned bounding box.
C3_ConvexInteriorAndOutside ==
    (DonePIP /\ IsConvex(call.polygon)) =>
        /\ StrictlyInsideConvex(call.point, call.polygon) => ret.value
        /\ OutsideBoundingBox(call.point, call.polygon) => ~ret.value

\* A convex quadrilateral was queried with a point of its interior, and the
\* call answered true.
C3_Witness ==
    /\ DonePIP
    /\ Len(call.polygon) = 4
    /\ IsConvex(call.polygon)
    /\ StrictlyInsideConvex(call.point, call.polygon)
    /\ ret.value

(***************************************************************************)
(* Claims about classify_point.  "Contains" is the containment test the    *)
(* function uses, point_in_polygon.                                        *)
(***************************************************************************)
DoneClassify == pc = "done" /\ call.op = "classify_point"

Contains(k) == point_in_polygon(Point(call.x, call.y), call.zones[k].polygon)

NoZoneContains == \A k \in 1 .. Len(call.zones) : ~Contains(k)

DoneDefault(x, y) ==
    /\ DoneClassify
    /\ call.zones = load_default_zones(ReferenceImage).value
    /\ call.x = x
    /\ call.y = y

\* C6 as stated: with the default zones of a 600 x 500 image the point
\* (10, 490) classifies as "3PT_CORNER".
C6_FarCornerIsCorner == DoneDefault(10, 490) => ret.value = "3PT_CORNER"

\* C6 amended: with the default zones of a 600 x 500 image the point
\* (10, 490) classifies as "UNKNOWN" (the left corner polygon ends at
\* y = 470).
C6_FarCornerIsUnknown == DoneDefault(10, 490) => ret.value = "UNKNOWN"

\* The point (10, 490) was classified against the default zones.
C6_Witness == DoneDefault(10, 490) /\ ret.value = "UNKNOWN"

\* C7 as stated: with the default zones of a 600 x 500 image the point
\* (300, 490) classifies as "3PT_ABOVE_BREAK" or "MIDRANGE".
C7_TopOfKeyIsBreakOrMidrange ==
    DoneDefault(300, 490) => ret.value \in {"3PT_ABOVE_BREAK", "MIDRANGE"}

\* C7 amended: with the default zones of a 600 x 500 image the point
\* (300, 490) classifies as "UNKNOWN" (no default polygon reaches below
\* y = 470).
C7_TopOfKeyIsUnknown == DoneDefault(300, 490) => ret.value = "UNKNOWN"

\* The point (300, 490) was classified against the default zones.
C7_Witness == DoneDefault(300, 490) /\ ret.value = "UNKNOWN"

RECURSIVE Names(_)
Names(zones) ==
    IF zones = <<>> THEN <<>> ELSE <<Head(zones).name>> \o Names(Tail(zones))

\* C8: the default zones of a 600 x 500 image come in the order PAINT,
\* MIDRANGE, 3PT_CORNER, 3PT_CORNER, 3PT_ABOVE_BREAK, and the point
\* (300, 100) classifies as "PAINT" although the MIDRANGE polygon listed
\* after it contains the point too.
C8_PaintBeforeMidrange ==
    DoneDefault(300, 100) =>
        /\ Names(call.zones) = <<"PAINT", "MIDRANGE", "3PT_CORNER",
                                 "3PT_CORNER", "3PT_ABOVE_BREAK">>
        /\ Contains(1)
        /\ Contains(2)
        /\ ret.value = "PAINT"

\* The point (300, 100) was classified against the default zones as PAINT.
C8_Witness == DoneDefault(300, 100) /\ Contains(2) /\ ret.value = "PAINT"

(***************************************************************************)
(* Claims about the result normalisation.                                  *)
(***************************************************************************)
DoneNormalise == pc = "done" /\ call.op = "_normalise_result"

C9_MakeWords ==
    { <<"m", "a", "k", "e">>,
      <<"m", "a", "d", "e">>,
      <<"h", "i", "t">>,
      <<"t", "r", "u", "e">>,
      <<"t">>,
      <<"1">>,
      <<"y", "e", "s">>,
      <<"y">> }

C9_MissWords ==
    { <<"m", "i", "s", "s">>,
      <<"m", "i", "s", "s", "e", "d">>,
      <<"f", "a", "l", "s", "e">>,
      <<"f">>,
      <<"0">>,
      <<"n", "o">>,
      <<"n">> }

\* The text of a value between its first and its last non-whitespace
\* character, in lower case.
C9_TrimmedLower(value) ==
    LET t    == str(value)
        keep == {k \in 1 .. Len(t) : t[k] \notin Whitespace}
    IN  IF keep = {}
        THEN <<>>
        ELSE LET first == CHOOSE k \in keep : \A m \in keep : k <= m
                 last  == CHOOSE k \in keep : \A m \in keep : m <= k
             IN  [k \in 1 .. (last - first + 1) |->
                     LowerChar(t[first + k - 1])]

C9_Outcome(r) == IF r.ok THEN r.value ELSE <<"error">>

\* C9: normalize_result yields "MAKE" exactly for the trimmed, lower-cased
\* MAKE words, "MISS" exactly for the MISS words, and for every other value
\* fails with an error naming the value; case and surrounding whitespace
\* never change the outcome, and its own output normalises to itself.
C9_NormaliseResult ==
    DoneNormalise =>
        LET text == C9_TrimmedLower(call.value)
        IN  /\ (ret.ok /\ ret.value = MAKE) <=> text \in C9_MakeWords
            /\ (ret.ok /\ ret.value = MISS) <=> text \in C9_MissWords
            /\ (text \notin C9_MakeWords \cup C9_MissWords) =>
                  /\ ~ret.ok
                  /\ ret.error = "ValueError"
                  /\ ret.value = str(call.value)
            /\ ret.ok => _normalise_result(StrV(ret.value)) = ret
            /\ call.value.type = "str" =>
                  /\ \A l \in Pads, r \in Pads :
                        C9_Outcome(_normalise_result(
                            StrV(l \o call.value.text \o r))) = C9_Outcome(ret)
                  /\ C9_Outcome(_normalise_result(
                        StrV(upper(call.value.text)))) = C9_Outcome(ret)
                  /\ C9_Outcome(_normalise_result(
                        StrV(lower(call.value.text)))) = C9_Outcome(ret)

\* A MAKE word in mixed case with whitespace on both sides was normalised
\* to "MAKE".
C9_Witness ==
    /\ DoneNormalise
    /\ call.value.type = "str"
    /\ Len(call.value.text) >= 3
    /\ Head(call.value.text) \in Whitespace
    /\ call.value.text[Len(call.value.text)] \in Whitespace
    /\ \E k \in 1 .. Len(call.value.text) :
          call.value.text[k] \in DOMAIN LowerMap
    /\ \E k \in 1 .. Len(call.value.text) :
          call.value.text[k] \in {LowerMap[u] : u \in DOMAIN LowerMap}
    /\ ret.ok
    /\ ret.value = MAKE

(***************************************************************************)
(* Claims about normalize_columns.                                         *)
(***************************************************************************)
DoneColumns == pc = "done" /\ call.op = "normalize_columns"

C10_Required == {"x", "y", "result"}

C10_Mapped == {call.mapping[k][1] : k \in 1 .. Len(call.mapping)}

\* C10: with a mapping that lacks any of x, y, result, normalize_columns
\* fails for any table with the mapping-incomplete error naming exactly the
\* missing required fields, and leaves the input table unmodified.
C10_MissingMappingFails ==
    (DoneColumns /\ C10_Required \ C10_Mapped # {}) =>
        /\ ~ret.result.ok
        /\ ret.result.error = "ValueError"
        /\ ret.result.kind = "missing_mappings"
        /\ {ret.result.names[k] : k \in 1 .. Len(ret.result.names)}
              = C10_Required \ C10_Mapped
        /\ Len(ret.result.names) = Cardinality(C10_Required \ C10_Mapped)
        /\ ret.df = call.df

\* The mapping {x: "sx", y: "res"} (no result) was applied to a table that
\* has no column "res" and holds a non-numeric cell: the call failed naming
\* result.
C10_Witness ==
    /\ DoneColumns
    /\ call.mapping = <<<<"x", "sx">>, <<"y", "res">>>>
    /\ call.df.columns = <<"sx", "sy">>
    /\ call.df.data[1][1] = StrV(<<"n">>)
    /\ ret.result.kind = "missing_mappings"
    /\ ret.result.names = <<"result">>

\* The labels of the columns of a table.
C11_Labels(df) == {df.columns[k] : k \in 1 .. Len(df.columns)}

\* The mapping names x, y and result, and every source column it names is a
\* column of the table.
C11_MappingComplete ==
    /\ C10_Required \subseteq C10_Mapped
    /\ \A k \in 1 .. Len(call.mapping) :
          call.mapping[k][2] \in C11_Labels(call.df)

\* C11: for a mapping that contains x, y and result and whose source columns
\* all exist (two logical fields may name the same source column),
\* normalize_columns either returns a table with columns x, y and result or
\* fails with one of its four descriptive ValueErrors, never with another
\* kind of error.
C11_ResultOrDescriptiveError ==
    (DoneColumns /\ C11_MappingComplete) =>
        \/ /\ ret.result.ok
           /\ C10_Required \subseteq C11_Labels(ret.result.value)
        \/ /\ ~ret.result.ok
           /\ ret.result.error = "ValueError"
           /\ ret.result.kind \in {"missing_mappings", "source_not_found",
                                   "non_numeric", "unrecognised_result"}

(***************************************************************************)
(* Claims about the manual tally.                                          *)
(***************************************************************************)
DoneIncrement == pc = "done" /\ call.op = "increment_count"

DoneInit == pc = "done" /\ call.op = "init_manual_counts"

C12_Outcomes == {"make", "miss"}

C12_Valid == call.zone \in Labels /\ call.outcome \in C12_Outcomes

\* The entry of a label is a dict with both counters.
C12_WellFormed(state, label) ==
    /\ "manual_counts" \in DOMAIN state
    /\ label \in DOMAIN state["manual_counts"]
    /\ C12_Outcomes \subseteq DOMAIN state["manual_counts"][label]

\* C12: after any sequence of increment_count calls and forced resets every
\* counter of every label of ZONE_LABELS equals the number of accepted
\* increments for that (zone, outcome) since the last forced reset: an
\* accepted increment raises exactly one counter by 1 and leaves the others
\* unchanged, an increment with an unknown zone or outcome is rejected with
\* an error and changes nothing, a forced reset sets every counter to 0,
\* and a non-forced init_manual_counts changes no well-formed counter.
C12_TallyCountsAcceptedIncrements ==
    /\ \A label \in Labels, o \in C12_Outcomes :
          Counter(session_state, label, o) = accepted[label][o]
    /\ "manual_counts" \in DOMAIN session_state =>
          \A label \in Labels : C12_WellFormed(session_state, label)
    /\ (DoneIncrement /\ C12_Valid) =>
          /\ ret.ok
          /\ \A label \in Labels, o \in C12_Outcomes :
                Counter(session_state, label, o) =
                    Counter(call.before, label, o)
                    + (IF label = call.zone /\ o = call.outcome
                       THEN 1 ELSE 0)
    /\ (DoneIncrement /\ ~C12_Valid) =>
          /\ ~ret.ok
          /\ ret.error = "ValueError"
          /\ session_state = call.before
    /\ (DoneInit /\ call.force) =>
          \A label \in Labels, o \in C12_Outcomes :
              /\ C12_WellFormed(session_state, label)
              /\ session_state["manual_counts"][label][o] = 0
    /\ (DoneInit /\ ~call.force) =>
          \A label \in Labels :
              C12_WellFormed(call.before, label) =>
                  session_state["manual_counts"][label]
                      = call.before["manual_counts"][label]

\* An increment of PAINT/make was accepted as the second one of that
\* counter, while TWO_PT/miss stands at 1 and THREE_PT/make at 0.
C12_Witness ==
    /\ DoneIncrement
    /\ call.zone = "PAINT"
    /\ call.outcome = "make"
    /\ ret.ok
    /\ Counter(call.before, "PAINT", "make") = 1
    /\ Counter(session_state, "PAINT", "make") = 2
    /\ Counter(session_state, "TWO_PT", "miss") = 1
    /\ Counter(session_state, "THREE_PT", "make") = 0

=============================================================================
